---- MODULE Spec2Model ----
(***************************************************************************)
(* Model of smplx2fbx.py: the conversion of a sequence of SMPL-X pose      *)
(* records into keyframes on a rigged armature, followed by the export.    *)
(*                                                                         *)
(* Numbers.  Lengths (translations, the bind-pose pelvis position) are     *)
(* integers.  Rotation vectors are integer 3-vectors in units of pi        *)
(* radians and lie on a coordinate axis, so that the norm, the cosine and  *)
(* the sine that Rodrigues takes are exact: theta = k*pi has cos = (-1)^k  *)
(* and sin = 0, and every rotation matrix and quaternion is integral.      *)
(* Arrays are sequences of rows; the index of the code is 0-based and the  *)
(* index of a sequence is 1-based, so poses[i] of the code is poses[i+1].  *)
(***************************************************************************)
EXTENDS Integers, Sequences, FiniteSets, TLC

VARIABLES
    records,        \* the npz files of the input directory, in sorted order
    fps_source,     \* --fps_source
    fps_target_arg, \* --fps_target
    start_origin,   \* --start_origin
    pelvis_head,    \* edit_bones['pelvis'].head of the imported template
    pc,             \* position of the script
    error,          \* the exception that ended the script, or "none"
    poses,          \* get_input_data: N rows, each 4*(1+21) numbers
    lhposes,        \* get_input_data: N x 15 x 4
    rhposes,        \* get_input_data: N x 15 x 4
    trans,          \* get_input_data: N x 3
    fps_target,     \* process_poses: the target rate after the clamp
    sample_rate,    \* process_poses: the stride
    frame_end,      \* scene.frame_end
    frame_current,  \* scene.frame_current (scene.frame_set)
    source_index,   \* process_poses: loop variable
    frame,          \* process_poses: loop variable
    offset,         \* process_poses: the centering offset
    track,          \* the keyframes inserted so far, one element per frame
    poses_processed,\* the value process_poses returned
    exported,       \* the track handed to export_animated_mesh, <<>> before
    rotvec_in,      \* ToQuaternion harness: the argument
    quat_out        \* ToQuaternion harness: the result

vars == <<records, fps_source, fps_target_arg, start_origin, pelvis_head, pc,
          error, poses, lhposes, rhposes, trans, fps_target, sample_rate,
          frame_end, frame_current, source_index, frame, offset, track,
          poses_processed, exported, rotvec_in, quat_out>>

(***************************************************************************)
(* Bounds of the model.                                                    *)
(***************************************************************************)
MaxN == 3
MaxBatch == 3

(***************************************************************************)
(* Joint names.                                                            *)
(***************************************************************************)
ROOT_NAME == "SMPLX-neutral"

BODY_JOINT_NAMES ==
    << "pelvis", "left_hip", "right_hip", "spine1", "left_knee", "right_knee",
       "spine2", "left_ankle", "right_ankle", "spine3", "left_foot",
       "right_foot", "neck", "left_collar", "right_collar", "head",
       "left_shoulder", "right_shoulder", "left_elbow", "right_elbow",
       "left_wrist", "right_wrist" >>

LHAND_JOINT_NAMES ==
    << "left_index1", "left_index2", "left_index3", "left_middle1",
       "left_middle2", "left_middle3", "left_pinky1", "left_pinky2",
       "left_pinky3", "left_ring1", "left_ring2", "left_ring3",
       "left_thumb1", "left_thumb2", "left_thumb3" >>

RHAND_JOINT_NAMES ==
    << "right_index1", "right_index2", "right_index3", "right_middle1",
       "right_middle2", "right_middle3", "right_pinky1", "right_pinky2",
       "right_pinky3", "right_ring1", "right_ring2", "right_ring3",
       "right_thumb1", "right_thumb2", "right_thumb3" >>

\* The row counts process_pose reshapes to.
NumBodyJoints == 22
NumHandJoints == 15

(***************************************************************************)
(* Arithmetic helpers.                                                     *)
(***************************************************************************)
Abs(x) == IF x < 0 THEN -x ELSE x

\* Python's int(a / b): true division, then truncation toward zero (b # 0).
IntTrueDiv(a, b) ==
    IF (a < 0) = (b < 0) THEN Abs(a) \div Abs(b) ELSE -(Abs(a) \div Abs(b))

\* Square root, exact on the perfect squares the model meets.
ISqrt(n) == CHOOSE k \in 0..n : k * k <= n /\ (k + 1) * (k + 1) > n

VecSub(a, b) == [k \in 1..3 |-> a[k] - b[k]]

\* np.eye(3)
Eye3 == [i \in 1..3 |-> [j \in 1..3 |-> IF i = j THEN 1 ELSE 0]]

\* cos and sin of theta, theta given in units of pi
CosPi(theta) == IF theta % 2 = 0 THEN 1 ELSE -1
SinPi(theta) == 0

(***************************************************************************)
(* Rotation Converter: Rodrigues and ToQuaternion.                         *)
(***************************************************************************)
\* np.linalg.norm of a vector on a coordinate axis
Norm(v) == ISqrt(v[1] * v[1] + v[2] * v[2] + v[3] * v[3])

\* Rodrigues with the two coefficients of the symmetric part exchanged.
RodriguesSwapped(rotvec) ==
    LET theta == Norm(rotvec)
    IN  LET r    == IF theta > 0
                    THEN <<rotvec[1] \div theta, rotvec[2] \div theta,
                           rotvec[3] \div theta>>
                    ELSE rotvec
            cost == CosPi(theta)
            sint == SinPi(theta)
        IN  LET mat == << <<0, -r[3], r[2]>>, <<r[3], 0, -r[1]>>,
                          <<-r[2], r[1], 0>> >>
                E(i, j) == (1 - cost) * Eye3[i][j] + cost * r[i] * r[j]
                           + sint * mat[i][j]
            IN  << <<E(1, 1), E(1, 2), E(1, 3)>>,
                   <<E(2, 1), E(2, 2), E(2, 3)>>,
                   <<E(3, 1), E(3, 2), E(3, 3)>> >>

\* cost*np.eye(3) + (1-cost)*r.dot(r.T) + np.sin(theta)*mat, entry by entry
Rodrigues(rotvec) ==
    LET theta == Norm(rotvec)
    IN  LET r    == IF theta > 0
                    THEN <<rotvec[1] \div theta, rotvec[2] \div theta,
                           rotvec[3] \div theta>>
                    ELSE rotvec
            cost == CosPi(theta)
            sint == SinPi(theta)
        IN  LET mat == << <<0, -r[3], r[2]>>, <<r[3], 0, -r[1]>>,
                          <<-r[2], r[1], 0>> >>
                E(i, j) == cost * Eye3[i][j] + (1 - cost) * r[i] * r[j]
                           + sint * mat[i][j]
            IN  << <<E(1, 1), E(1, 2), E(1, 3)>>,
                   <<E(2, 1), E(2, 2), E(2, 3)>>,
                   <<E(3, 1), E(3, 2), E(3, 3)>> >>

\* mathutils Matrix.to_quaternion of a rotation matrix: the branch on the
\* largest diagonal term, then the square root of the trace-like sum.
MatToQuat(m) ==
    IF m[3][3] < 0
    THEN IF m[1][1] > m[2][2]
         THEN LET s == 2 * ISqrt(1 + m[1][1] - m[2][2] - m[3][3])
              IN  << (m[3][2] - m[2][3]) \div s, s \div 4,
                     (m[2][1] + m[1][2]) \div s, (m[1][3] + m[3][1]) \div s >>
         ELSE LET s == 2 * ISqrt(1 - m[1][1] + m[2][2] - m[3][3])
              IN  << (m[1][3] - m[3][1]) \div s, (m[2][1] + m[1][2]) \div s,
                     s \div 4, (m[3][2] + m[2][3]) \div s >>
    ELSE IF m[1][1] < -m[2][2]
         THEN LET s == 2 * ISqrt(1 - m[1][1] - m[2][2] + m[3][3])
              IN  << (m[2][1] - m[1][2]) \div s, (m[1][3] + m[3][1]) \div s,
                     (m[3][2] + m[2][3]) \div s, s \div 4 >>
         ELSE LET s == 2 * ISqrt(1 + m[1][1] + m[2][2] + m[3][3])
              IN  << s \div 4, (m[3][2] - m[2][3]) \div s,
                     (m[1][3] - m[3][1]) \div s, (m[2][1] - m[1][2]) \div s >>

\* An array is [ndim |-> 1, data |-> a 3-vector] or
\* [ndim |-> 2, data |-> a sequence of 3-vectors].
ToQuaternion(rotvec) ==
    IF rotvec.ndim = 1
    THEN [ndim |-> 1, data |-> MatToQuat(Rodrigues(rotvec.data))]
    ELSE [ndim |-> 2,
          data |-> [i \in 1..Len(rotvec.data) |->
                       MatToQuat(Rodrigues(rotvec.data[i]))]]

\* np.matmul(a, m) for a an array of 3-vectors and m a 3x3 matrix
MatMul(a, m) ==
    [ndim |-> 2,
     data |-> [i \in 1..Len(a.data) |-> [c \in 1..3 |->
                  a.data[i][1] * m[1][c] + a.data[i][2] * m[2][c]
                  + a.data[i][3] * m[3][c]]]]

\* ndarray.flatten of an array of rows of 4
Flatten(rows) ==
    [k \in 1..(4 * Len(rows)) |-> rows[((k - 1) \div 4) + 1][((k - 1) % 4) + 1]]

\* ndarray.reshape(n, 4) of a flat array of 4*n numbers
Reshape4(flat, n) ==
    [i \in 1..n |-> [c \in 1..4 |-> flat[4 * (i - 1) + c]]]

(***************************************************************************)
(* The input records.                                                      *)
(***************************************************************************)
\* Rotation vectors, in units of pi: none, half turns about the three axes
\* in either sense, and a full turn.
RotVecs ==
    << <<0, 0, 0>>, <<1, 0, 0>>, <<0, -1, 0>>, <<0, 0, 1>>, <<2, 0, 0>>,
       <<0, 0, -1>> >>

RotVecSet == {RotVecs[k] : k \in 1..Len(RotVecs)}

\* An (n, 3) array whose rows run through RotVecs from position seed on
RawArray(n, seed) ==
    [ndim |-> 2,
     data |-> [j \in 1..n |-> RotVecs[((seed + j) % Len(RotVecs)) + 1]]]

\* The row counts of the four pose arrays of a record
GoodShape == [g |-> 1, b |-> 21, l |-> 15, r |-> 15]

BadShapes ==
    { [g |-> 1, b |-> 20, l |-> 15, r |-> 15],
      [g |-> 2, b |-> 20, l |-> 15, r |-> 15],
      [g |-> 1, b |-> 21, l |-> 14, r |-> 15] }

\* np.load of a file: the arrays of the record.  A file is kept as the
\* row counts of its arrays, the position its rotations start from and its
\* translation.
NpLoad(file) ==
    [global_orient   |-> RawArray(file.shape.g, file.seed),
     body_pose       |-> RawArray(file.shape.b, file.seed + 1),
     left_hand_pose  |-> RawArray(file.shape.l, file.seed + 2),
     right_hand_pose |-> RawArray(file.shape.r, file.seed + 3),
     transl          |-> file.transl]

(***************************************************************************)
(* Pose Sample Assembler: get_input_data.                                  *)
(***************************************************************************)
fix_coor == << <<1, 0, 0>>, <<0, 1, 0>>, <<0, 0, -1>> >>

\* One pass of the loop body: what is appended to the four lists.
AssembleRecord(npz_data) ==
    LET rot == ToQuaternion(npz_data.global_orient).data
               \o ToQuaternion(npz_data.body_pose).data
    IN  [pose   |-> Flatten(rot),
         lhpose |-> ToQuaternion(MatMul(npz_data.left_hand_pose, fix_coor)).data,
         rhpose |-> ToQuaternion(MatMul(npz_data.right_hand_pose, fix_coor)).data,
         transl |-> npz_data.transl]

\* np.vstack / np.stack accept the list only when all its elements have
\* one shape.
Stackable(list) == \A i, j \in 1..Len(list) : Len(list[i]) = Len(list[j])

\* The loop over the sorted file list, up to file number k.
RECURSIVE LoadAll(_, _)
LoadAll(frame_list, k) ==
    IF k = 0 THEN <<>>
    ELSE Append(LoadAll(frame_list, k - 1), AssembleRecord(NpLoad(frame_list[k])))

GetInputData ==
    /\ pc = "start"
    /\ \E out \in {LoadAll(records, Len(records))} :
       LET ps  == [i \in 1..Len(records) |-> out[i].pose]
           lh  == [i \in 1..Len(records) |-> out[i].lhpose]
           rh  == [i \in 1..Len(records) |-> out[i].rhpose]
           tr  == [i \in 1..Len(records) |-> out[i].transl]
       IN  IF Stackable(ps) /\ Stackable(lh) /\ Stackable(rh)
           THEN /\ poses' = ps
                /\ lhposes' = lh
                /\ rhposes' = rh
                /\ trans' = tr
                /\ pc' = "loaded"
                /\ error' = error
           ELSE /\ pc' = "failed"
                /\ error' = "ValueError"
                /\ UNCHANGED <<poses, lhposes, rhposes, trans>>
    /\ UNCHANGED <<records, fps_source, fps_target_arg, start_origin,
                   pelvis_head, fps_target, sample_rate, frame_end,
                   frame_current, source_index, frame, offset, track,
                   poses_processed, exported, rotvec_in, quat_out>>

(***************************************************************************)
(* Orientation Corrector and Keyframe Emitter: process_pose.               *)
(***************************************************************************)
\* Quaternion((1.0, 0.0, 0.0), radians(-180)): (cos(-pi/2), sin(-pi/2)*X)
quat_x_180_cw == <<0, -1, 0, 0>>

\* mathutils Quaternion @ Quaternion: the Hamilton product
QuatMul(a, b) ==
    << a[1] * b[1] - a[2] * b[2] - a[3] * b[3] - a[4] * b[4],
       a[1] * b[2] + a[2] * b[1] + a[3] * b[4] - a[4] * b[3],
       a[1] * b[3] - a[2] * b[4] + a[3] * b[1] + a[4] * b[2],
       a[1] * b[4] + a[2] * b[3] - a[3] * b[2] + a[4] * b[1] >>

\* The pelvis location with the source's vertical component kept.
PelvisLocationFull(tr, pelvis_position) ==
    VecSub(<<tr[1], tr[2], tr[3]>>, pelvis_position)

\* bones['pelvis'].location
PelvisLocation(tr, pelvis_position) ==
    VecSub(<<tr[1], tr[2], 0>>, pelvis_position)

\* The body loop without the pelvis branch.
BoneRotationPlain(index, bone_rotation) == bone_rotation

\* The rotation the body loop assigns to bone number index (0-based)
BoneRotation(index, bone_rotation) ==
    IF index = 0 THEN QuatMul(quat_x_180_cw, bone_rotation) ELSE bone_rotation

Key(bone, data_path, current_frame, value) ==
    [bone |-> bone, data_path |-> data_path, frame |-> current_frame,
     value |-> value]

\* The indices of a loop over enumerate(rows, 0) that skips index >= limit
LoopCount(rows, limit) == IF Len(rows) < limit THEN Len(rows) ELSE limit

BodyKeys(rod_rots, current_frame) ==
    [k \in 1..LoopCount(rod_rots, NumBodyJoints) |->
        Key(BODY_JOINT_NAMES[k], "rotation_quaternion", current_frame,
            BoneRotation(k - 1, rod_rots[k]))]

LHandKeys(lhrod_rots, current_frame) ==
    [k \in 1..LoopCount(lhrod_rots, NumHandJoints) |->
        Key(LHAND_JOINT_NAMES[k], "rotation_quaternion", current_frame,
            lhrod_rots[k])]

\* The right-hand loop looking its bones up in the left-hand list.
RHandKeysLeftNames(rhrod_rots, current_frame) ==
    [k \in 1..LoopCount(rhrod_rots, NumHandJoints) |->
        Key(LHAND_JOINT_NAMES[k], "rotation_quaternion", current_frame,
            rhrod_rots[k])]

RHandKeys(rhrod_rots, current_frame) ==
    [k \in 1..LoopCount(rhrod_rots, NumHandJoints) |->
        Key(RHAND_JOINT_NAMES[k], "rotation_quaternion", current_frame,
            rhrod_rots[k])]

\* The three reshape calls that open process_pose succeed.
ReshapeOK(pose, lhandpose, rhandpose) ==
    /\ Len(pose) = NumBodyJoints * 4
    /\ Len(lhandpose) * 4 = NumHandJoints * 4
    /\ Len(rhandpose) * 4 = NumHandJoints * 4

\* The keyframes process_pose inserts, in the order it inserts them.
ProcessPose(current_frame, pose, lhandpose, rhandpose, tr, pelvis_position) ==
    << Key(BODY_JOINT_NAMES[1], "location", current_frame,
           PelvisLocation(tr, pelvis_position)) >>
    \o BodyKeys(Reshape4(pose, NumBodyJoints), current_frame)
    \o LHandKeys(lhandpose, current_frame)
    \o RHandKeys(rhandpose, current_frame)

(***************************************************************************)
(* Frame Resampler and Root Motion Resolver: process_poses.                *)
(***************************************************************************)
\* The stride rounded up instead of truncated.
SampleRateRoundedUp(src, tgt) ==
    LET eff == IF tgt > src THEN src ELSE tgt
    IN  IntTrueDiv(src + Abs(eff) - 1, eff)

\* Lines 269-281: the clamp of the target rate, then the stride.
\* Defined when the clamped target rate is not 0.
SampleRate(src, tgt) ==
    IntTrueDiv(src, IF tgt > src THEN src ELSE tgt)

\* Python's a[i]: the 1-based position of index i in an array of n rows,
\* 0 when a[i] raises IndexError.
PyIndex(n, i) ==
    IF 0 <= i /\ i < n THEN i + 1
    ELSE IF -n <= i /\ i < 0 THEN n + i + 1
    ELSE 0

\* The offset taken anew at every selected frame.
CaptureOffsetEveryFrame(centering, index, tr, old) ==
    IF centering /\ PyIndex(Len(tr), index) # 0
    THEN <<tr[PyIndex(Len(tr), index)][1], tr[PyIndex(Len(tr), index)][2], 0>>
    ELSE old

\* Lines 299-301
CaptureOffset(centering, index, tr, old) ==
    IF centering /\ index = 0
    THEN <<tr[index + 1][1], tr[index + 1][2], 0>>
    ELSE old

\* Lines 268-295 of process_poses, after get_input_data returned.
SetupScene ==
    /\ pc = "loaded"
    /\ LET tgt == IF fps_target_arg > fps_source THEN fps_source
                  ELSE fps_target_arg
       IN  /\ fps_target' = tgt
           /\ IF tgt = 0
              THEN /\ pc' = "failed"
                   /\ error' = "ZeroDivisionError"
                   /\ UNCHANGED <<sample_rate, frame_end, source_index, frame,
                                  offset>>
              ELSE /\ sample_rate' = SampleRate(fps_source, fps_target_arg)
                   /\ IF sample_rate' = 0
                      THEN /\ pc' = "failed"
                           /\ error' = "ZeroDivisionError"
                           /\ UNCHANGED <<frame_end, source_index, frame, offset>>
                      ELSE /\ frame_end' = IntTrueDiv(Len(poses), sample_rate')
                           /\ source_index' = 0
                           /\ frame' = 1
                           /\ offset' = <<0, 0, 0>>
                           /\ pc' = "loop"
                           /\ error' = error
    /\ UNCHANGED <<records, fps_source, fps_target_arg, start_origin,
                   pelvis_head, poses, lhposes, rhposes, trans, frame_current,
                   track, poses_processed, exported, rotvec_in, quat_out>>

\* One pass of the while loop of lines 297-313.
ProcessFrame ==
    /\ pc = "loop"
    /\ source_index < Len(poses)
    /\ offset' = CaptureOffset(start_origin, source_index, trans, offset)
    /\ frame_current' = frame
    /\ LET at == PyIndex(Len(poses), source_index)
       IN  IF at = 0
           THEN /\ pc' = "failed"
                /\ error' = "IndexError"
                /\ UNCHANGED <<track, source_index, frame>>
           ELSE IF ~ReshapeOK(poses[at], lhposes[at], rhposes[at])
           THEN /\ pc' = "failed"
                /\ error' = "ValueError"
                /\ UNCHANGED <<track, source_index, frame>>
           ELSE /\ track' = Append(track,
                       [frame  |-> frame,
                        source |-> source_index,
                        keys   |-> ProcessPose(frame, poses[at], lhposes[at],
                                               rhposes[at],
                                               VecSub(trans[at], offset'),
                                               pelvis_head)])
                /\ source_index' = source_index + sample_rate
                /\ frame' = frame + 1
                /\ UNCHANGED <<pc, error>>
    /\ UNCHANGED <<records, fps_source, fps_target_arg, start_origin,
                   pelvis_head, poses, lhposes, rhposes, trans, fps_target,
                   sample_rate, frame_end, poses_processed, exported,
                   rotvec_in, quat_out>>

\* Lines 314-315: the loop is over, process_poses returns frame.
ReturnPoses ==
    /\ pc = "loop"
    /\ ~(source_index < Len(poses))
    /\ poses_processed' = frame
    /\ pc' = "returned"
    /\ UNCHANGED <<records, fps_source, fps_target_arg, start_origin,
                   pelvis_head, error, poses, lhposes, rhposes, trans,
                   fps_target, sample_rate, frame_end, frame_current,
                   source_index, frame, offset, track, exported, rotvec_in,
                   quat_out>>

(***************************************************************************)
(* __main__: process_poses, then export_animated_mesh.                     *)
(***************************************************************************)
\* The exporter called whether or not process_poses returned.
ExportReachedAlways == pc \in {"returned", "failed"}

\* Line 417 is reached only when the call of line 408 returned: an
\* exception other than SystemExit leaves the try block.
ExportReached == pc = "returned"

ExportAnimatedMesh ==
    /\ ExportReached
    /\ exported' = track
    /\ pc' = "exported"
    /\ UNCHANGED <<records, fps_source, fps_target_arg, start_origin,
                   pelvis_head, error, poses, lhposes, rhposes, trans,
                   fps_target, sample_rate, frame_end, frame_current,
                   source_index, frame, offset, track, poses_processed,
                   rotvec_in, quat_out>>

(***************************************************************************)
(* ToQuaternion on its own: one call on a vector or on a batch.            *)
(***************************************************************************)
ConvertRotvec ==
    /\ pc = "quat"
    /\ quat_out' = ToQuaternion(rotvec_in)
    /\ pc' = "quat_done"
    /\ UNCHANGED <<records, fps_source, fps_target_arg, start_origin,
                   pelvis_head, error, poses, lhposes, rhposes, trans,
                   fps_target, sample_rate, frame_end, frame_current,
                   source_index, frame, offset, track, poses_processed,
                   exported, rotvec_in>>

(***************************************************************************)
(* The inputs.                                                             *)
(***************************************************************************)
\* Where the records of another shape lie: nowhere, at one position, or
\* everywhere.
BadPositions(n) == {{}} \cup {{i} : i \in 1..n} \cup {1..n}

TransSet == {<<2, -1, 5>>, <<3, 0, 6>>}
PelvisSet == {<<0, 0, 0>>, <<1, -2, 3>>}
RateSet == {-10, 0, 10, 25}

InitLocals ==
    /\ error = "none"
    /\ poses = <<>>
    /\ lhposes = <<>>
    /\ rhposes = <<>>
    /\ trans = <<>>
    /\ fps_target = fps_target_arg
    /\ sample_rate = 0
    /\ frame_end = 250
    /\ frame_current = 1
    /\ source_index = 0
    /\ frame = 0
    /\ offset = <<0, 0, 0>>
    /\ track = <<>>
    /\ poses_processed = 0
    /\ exported = <<>>

Init ==
    /\ \E n \in 1..MaxN :
       \E tr \in [1..n -> TransSet], bad \in BadShapes, at \in BadPositions(n) :
          records = [i \in 1..n |->
                        [shape  |-> IF i \in at THEN bad ELSE GoodShape,
                         seed   |-> i,
                         transl |-> tr[i]]]
    /\ fps_source \in RateSet
    /\ fps_target_arg \in RateSet
    /\ start_origin \in BOOLEAN
    /\ pelvis_head \in PelvisSet
    /\ pc = "start"
    /\ rotvec_in = <<>>
    /\ quat_out = <<>>
    /\ InitLocals

Next ==
    \/ GetInputData
    \/ SetupScene
    \/ ProcessFrame
    \/ ReturnPoses
    \/ ExportAnimatedMesh

Spec == Init /\ [][Next]_vars

InitQuat ==
    /\ \/ \E v \in RotVecSet : rotvec_in = [ndim |-> 1, data |-> v]
       \/ \E n \in 1..MaxBatch : \E rows \in [1..n -> RotVecSet] :
             rotvec_in = [ndim |-> 2, data |-> rows]
    /\ quat_out = <<>>
    /\ records = <<>>
    /\ fps_source = 30
    /\ fps_target_arg = 30
    /\ start_origin = TRUE
    /\ pelvis_head = <<0, 0, 0>>
    /\ pc = "quat"
    /\ InitLocals

NextQuat == ConvertRotvec

SpecQuat == InitQuat /\ [][NextQuat]_vars

(***************************************************************************)
(* Vocabulary of the properties.                                           *)
(***************************************************************************)
NumRecords == Len(records)

PositiveRates == fps_source > 0 /\ fps_target_arg > 0

WellShaped == \A i \in 1..NumRecords : records[i].shape = GoodShape

\* floor(fps_src / min(fps_tgt, fps_src)), for positive rates
Stride ==
    fps_source \div (IF fps_target_arg < fps_source THEN fps_target_arg
                     ELSE fps_source)

CeilDiv(a, b) == (a + b - 1) \div b

IdentityQuat == <<1, 0, 0, 0>>

\* The rows of the loaded arrays that the frame number k of the track was
\* built from
SourceRow(k) == PyIndex(Len(poses), track[k].source)
BodyOf(k) == Reshape4(poses[SourceRow(k)], NumBodyJoints)

\* The values keyframed in a frame for a bone on a data path, in order
ValuesOf(keys, bone, data_path) ==
    LET hit == SelectSeq(keys,
                   LAMBDA key : key.bone = bone /\ key.data_path = data_path)
    IN  [i \in 1..Len(hit) |-> hit[i].value]

AllJointNames == BODY_JOINT_NAMES \o LHAND_JOINT_NAMES \o RHAND_JOINT_NAMES

(***************************************************************************)
(* C1: with positive rates the stride is s = floor(fps_src / min(fps_tgt,  *)
(* fps_src)) >= 1; the k-th frame emitted has frame number k and is built  *)
(* from the source record (k-1)*s; a run over well-shaped records does not *)
(* fail, and when process_poses has returned exactly ceil(N/s) frames      *)
(* were emitted.                                                           *)
(***************************************************************************)
ResamplingStride ==
    PositiveRates =>
        /\ Stride >= 1
        /\ pc \in {"loop", "returned", "exported"} => sample_rate = Stride
        /\ WellShaped => pc # "failed"
        /\ \A k \in 1..Len(track) :
              /\ track[k].frame = k
              /\ track[k].source = (k - 1) * Stride
              /\ track[k].source < NumRecords
              /\ \A i \in 1..Len(track[k].keys) : track[k].keys[i].frame = k
              /\ ValuesOf(track[k].keys, "left_hip", "rotation_quaternion")
                    = << Reshape4(poses[(k - 1) * Stride + 1], NumBodyJoints)[2] >>
        /\ pc \in {"returned", "exported"} =>
              Len(track) = CeilDiv(NumRecords, Stride)

ResamplingStrideWitness ==
    /\ pc = "returned"
    /\ PositiveRates
    /\ fps_target_arg < fps_source
    /\ Stride = 2
    /\ NumRecords = 3
    /\ Len(track) = 2
    /\ track[2].source = 2

(***************************************************************************)
(* C2: with centering the offset is (t0.x, t0.y, 0), t0 the translation    *)
(* of the first record, from the first frame on and for good; without     *)
(* centering it is (0, 0, 0) throughout.  The horizontal location of every *)
(* frame, before the bind-pose position is subtracted, is the record's     *)
(* translation minus that offset: (0, 0) in the first frame when           *)
(* centering.                                                              *)
(***************************************************************************)
ExpectedOffset ==
    IF start_origin
    THEN <<records[1].transl[1], records[1].transl[2], 0>>
    ELSE <<0, 0, 0>>

OriginCentering ==
    /\ ~start_origin => offset = <<0, 0, 0>>
    /\ Len(track) >= 1 => offset = ExpectedOffset
    /\ \A k \in 1..Len(track) :
          LET t   == records[SourceRow(k)].transl
              loc == ValuesOf(track[k].keys, "pelvis", "location")
          IN  /\ Len(loc) = 1
              /\ loc[1][1] + pelvis_head[1] = t[1] - ExpectedOffset[1]
              /\ loc[1][2] + pelvis_head[2] = t[2] - ExpectedOffset[2]
              /\ (start_origin /\ k = 1) =>
                    /\ loc[1][1] + pelvis_head[1] = 0
                    /\ loc[1][2] + pelvis_head[2] = 0

OriginCenteringWitness ==
    /\ start_origin
    /\ PositiveRates
    /\ Len(track) >= 2
    /\ records[1].transl = <<2, -1, 5>>
    /\ records[SourceRow(2)].transl = <<3, 0, 6>>
    /\ ValuesOf(track[2].keys, "pelvis", "location")[1][1] + pelvis_head[1] = 1
    /\ ValuesOf(track[2].keys, "pelvis", "location")[1][2] + pelvis_head[2] = 1

(***************************************************************************)
(* C3: in every frame the vertical component of the keyframed root         *)
(* location is 0 minus the vertical component of the bind-pose position.   *)
(***************************************************************************)
VerticalRootLock ==
    \A k \in 1..Len(track) :
        LET loc == ValuesOf(track[k].keys, "pelvis", "location")
        IN  /\ Len(loc) = 1
            /\ loc[1][3] = 0 - pelvis_head[3]

VerticalRootLockWitness ==
    /\ Len(track) >= 2
    /\ pelvis_head[3] # 0
    /\ records[SourceRow(1)].transl[3] # records[SourceRow(2)].transl[3]
    /\ records[SourceRow(1)].transl[3] # 0

(***************************************************************************)
(* C4: in every frame the pelvis is keyframed with the half turn about X   *)
(* times the assembled root quaternion, (w, x, y, z) |-> (x, -w, z, -y),   *)
(* and every other body joint and every hand joint with the assembled      *)
(* quaternion of its position, unchanged.                                  *)
(***************************************************************************)
RootOnlyCorrection ==
    \A k \in 1..Len(track) :
        LET keys == track[k].keys
            body == BodyOf(k)
            lh   == lhposes[SourceRow(k)]
            rh   == rhposes[SourceRow(k)]
        IN  /\ ValuesOf(keys, "pelvis", "rotation_quaternion")
                  = << <<body[1][2], -body[1][1], body[1][4], -body[1][3]>> >>
            /\ \A j \in 2..NumBodyJoints :
                  ValuesOf(keys, BODY_JOINT_NAMES[j], "rotation_quaternion")
                      = << body[j] >>
            /\ \A j \in 1..NumHandJoints :
                  /\ ValuesOf(keys, LHAND_JOINT_NAMES[j], "rotation_quaternion")
                        = << lh[j] >>
                  /\ ValuesOf(keys, RHAND_JOINT_NAMES[j], "rotation_quaternion")
                        = << rh[j] >>

RootOnlyCorrectionWitness ==
    /\ Len(track) >= 2
    /\ BodyOf(2)[1] = <<0, 0, 1, 0>>
    /\ ValuesOf(track[2].keys, "pelvis", "rotation_quaternion")
          = << <<0, 0, 0, -1>> >>
    /\ BodyOf(2)[2] = <<0, 0, 0, 1>>
    /\ ValuesOf(track[2].keys, "left_hip", "rotation_quaternion")
          = << <<0, 0, 0, 1>> >>

(***************************************************************************)
(* C5: every frame holds, in this order, one location keyframe on the      *)
(* pelvis and one rotation keyframe for each of the 22 body, 15 left-hand  *)
(* and 15 right-hand joint names, each list in its own order, and nothing  *)
(* else; the hand joint at position j receives the j-th assembled          *)
(* quaternion of its hand.                                                 *)
(***************************************************************************)
CompleteFrames ==
    \A k \in 1..Len(track) :
        LET keys == track[k].keys
        IN  /\ Len(keys) = 1 + Len(AllJointNames)
            /\ keys[1].bone = BODY_JOINT_NAMES[1]
            /\ keys[1].data_path = "location"
            /\ \A i \in 1..Len(AllJointNames) :
                  /\ keys[i + 1].bone = AllJointNames[i]
                  /\ keys[i + 1].data_path = "rotation_quaternion"
            /\ \A i \in 1..Len(keys) : keys[i].frame = k
            /\ \A j \in 1..NumHandJoints :
                  /\ keys[1 + NumBodyJoints + j].value = lhposes[SourceRow(k)][j]
                  /\ keys[1 + NumBodyJoints + NumHandJoints + j].value
                        = rhposes[SourceRow(k)][j]
            /\ \A k2 \in 1..Len(track) :
                  [i \in 1..Len(keys) |-> <<keys[i].bone, keys[i].data_path>>]
                  = [i \in 1..Len(track[k2].keys) |->
                        <<track[k2].keys[i].bone, track[k2].keys[i].data_path>>]

CompleteFramesWitness ==
    /\ Len(track) = 3
    /\ Len(track[3].keys) = 53
    /\ track[3].keys[53].bone = "right_thumb3"
    /\ track[3].keys[24].bone = "left_index1"

(***************************************************************************)
(* C6 as claimed: when a record's joint arrays do not have the expected    *)
(* row counts (the rates being valid), no frame is emitted for the whole   *)
(* sequence and the conversion does not complete.                          *)
(***************************************************************************)
ShapeRejection ==
    (PositiveRates /\ ~WellShaped) =>
        /\ track = <<>>
        /\ pc \notin {"returned", "exported"}

(***************************************************************************)
(* C7 as claimed: a source or target rate that is not positive is          *)
(* rejected before a frame is emitted (the records being well shaped), and *)
(* the conversion does not complete.                                       *)
(***************************************************************************)
RateRejection ==
    (WellShaped /\ ~PositiveRates) =>
        /\ track = <<>>
        /\ pc \notin {"returned", "exported"}

(***************************************************************************)
(* C8: the exporter is invoked only after process_poses returned, with     *)
(* the complete track (every source index 0, s, 2s, ... below N, s the     *)
(* stride in use); once an exception was raised it is never invoked.       *)
(***************************************************************************)
ExportOnlyComplete ==
    /\ pc # "exported" => exported = <<>>
    /\ error # "none" => pc = "failed"
    /\ pc = "failed" => error # "none"
    /\ pc = "exported" =>
          /\ error = "none"
          /\ exported = track
          /\ sample_rate >= 1
          /\ poses_processed = Len(track) + 1
          /\ Len(exported) = CeilDiv(NumRecords, sample_rate)
          /\ \A k \in 1..Len(exported) :
                /\ exported[k].frame = k
                /\ exported[k].source = (k - 1) * sample_rate
                /\ Len(exported[k].keys) = 1 + Len(AllJointNames)

ExportOnlyCompleteWitness ==
    /\ pc = "exported"
    /\ Len(exported) = 2
    /\ NumRecords = 3

(***************************************************************************)
(* C9: ToQuaternion maps a zero rotation vector to the identity            *)
(* quaternion, given alone or as a row of a batch: Rodrigues of the zero   *)
(* vector is the identity matrix, the batch keeps its length, and row i    *)
(* of the result is the quaternion of row i of the argument (identity for  *)
(* no turn and for a full turn, (0, |x|, |y|, |z|) for a half turn).       *)
(***************************************************************************)
QuatOfAxisTurn(v) ==
    IF (Abs(v[1]) + Abs(v[2]) + Abs(v[3])) % 2 = 0 THEN IdentityQuat
    ELSE <<0, Abs(v[1]), Abs(v[2]), Abs(v[3])>>

ZeroToIdentity ==
    pc = "quat_done" =>
        /\ Rodrigues(<<0, 0, 0>>) = << <<1, 0, 0>>, <<0, 1, 0>>, <<0, 0, 1>> >>
        /\ quat_out.ndim = rotvec_in.ndim
        /\ rotvec_in.ndim = 1 =>
              /\ quat_out.data = QuatOfAxisTurn(rotvec_in.data)
              /\ rotvec_in.data = <<0, 0, 0>> => quat_out.data = IdentityQuat
        /\ rotvec_in.ndim = 2 =>
              /\ Len(quat_out.data) = Len(rotvec_in.data)
              /\ \A i \in 1..Len(rotvec_in.data) :
                    /\ quat_out.data[i] = QuatOfAxisTurn(rotvec_in.data[i])
                    /\ rotvec_in.data[i] = <<0, 0, 0>> =>
                          quat_out.data[i] = IdentityQuat

ZeroToIdentityWitness ==
    /\ pc = "quat_done"
    /\ rotvec_in = [ndim |-> 2,
                    data |-> << <<1, 0, 0>>, <<0, 0, 0>>, <<0, 0, -1>> >>]
    /\ quat_out.data = << <<0, 1, 0, 0>>, <<1, 0, 0, 0>>, <<0, 0, 0, 1>> >>

(***************************************************************************)
(* C10 as claimed: with positive rates, once process_poses has returned,   *)
(* scene.frame_end is at least the number of the last keyframed frame.     *)
(***************************************************************************)
FrameEndCoversTrack ==
    (PositiveRates /\ pc \in {"returned", "exported"}) =>
        \A k \in 1..Len(track) : track[k].frame <= frame_end

====
